---- MODULE Spec2Model ----
(***************************************************************************)
(* Model of src/my_agent/agent.py: the HirelyticsAgent (analyze and its    *)
(* mock fallback) and the HTTP handlers that persist and list analysis     *)
(* results (create_job, upload_cv, analyze_candidate_endpoint, get_jobs).  *)
(*                                                                         *)
(* Python values are tagged records [t |-> tag, v |-> payload]:            *)
(*   none, int (v an integer), str (v a sequence of string pieces, the     *)
(*   concatenation of which is the string), list (v a sequence of values), *)
(*   dict (v a function from keys to values).                              *)
(* A backend response text is a sequence of characters. The source text of *)
(* one JSON document is written as a single document token (a run of       *)
(* characters holding no backtick and no leading or trailing whitespace).  *)
(***************************************************************************)
EXTENDS Integers, Sequences, FiniteSets, TLC

VARIABLES client, jobs, cands, pc, req, response, returned

vars == <<client, jobs, cands, pc, req, response, returned>>

-----------------------------------------------------------------------------
(* Bounds of the model. *)

MaxSlots == 2
MaxJobs == 2
MaxCandidates == 2

Slots == 1..MaxSlots
\* Document ids are written as positive integers; 0 is the empty string.
JobIds == 1..MaxJobs
CandIds == 1..MaxCandidates
EmptyId == 0

Names == {"Alice", "Bob"}
FileNames == {"cv.pdf"}

-----------------------------------------------------------------------------
(* Python values. *)

PyNone == [t |-> "none", v |-> 0]
PyInt(n) == [t |-> "int", v |-> n]
PyStr(pieces) == [t |-> "str", v |-> pieces]
PyList(s) == [t |-> "list", v |-> s]
PyDict(f) == [t |-> "dict", v |-> f]
EmptyDict == PyDict(<<>>)

IsDict(x) == x.t = "dict"

\* bool(x): the truth value Python gives a value in an `if`.
Truthy(x) ==
    CASE x.t = "none" -> FALSE
      [] x.t = "int"  -> x.v # 0
      [] x.t = "str"  -> x.v # <<>>
      [] x.t = "list" -> x.v # <<>>
      [] x.t = "dict" -> DOMAIN x.v # {}

\* str(x) for the values the agent formats: str(None) is "None".
str(x) == IF x.t = "none" THEN <<"None">> ELSE x.v

\* d.get(key, default) on a dict d.
get(d, key, default) == IF key \in DOMAIN d.v THEN d.v[key] ELSE default

-----------------------------------------------------------------------------
(* Text. *)

\* The backtick character (written by name: the character itself cannot stand
\* in a string of this module).
Backtick == "backtick"
Whitespace == {" ", "\n"}
FenceOpen == <<Backtick, Backtick, Backtick, "j", "s", "o", "n">>
FenceClose == <<Backtick, Backtick, Backtick>>

startswith(s, p) == Len(s) >= Len(p) /\ SubSeq(s, 1, Len(p)) = p
endswith(s, p) == Len(s) >= Len(p) /\ SubSeq(s, Len(s) - Len(p) + 1, Len(s)) = p

RECURSIVE lstrip(_)
lstrip(s) == IF s # <<>> /\ Head(s) \in Whitespace THEN lstrip(Tail(s)) ELSE s

RECURSIVE rstrip(_)
rstrip(s) ==
    IF s # <<>> /\ s[Len(s)] \in Whitespace THEN rstrip(SubSeq(s, 1, Len(s) - 1)) ELSE s

strip(s) == rstrip(lstrip(s))

-----------------------------------------------------------------------------
(* JSON documents a backend may answer with, and what json.loads makes of  *)
(* each. DocTruncated is a document cut short, which does not parse.       *)

Strengths == PyList(<<PyStr(<<"SQL">>)>>)
Missing == PyList(<<PyStr(<<"Go">>)>>)
FullAnalysis ==
    PyDict([summary |-> PyStr(<<"Good fit">>), strengths |-> Strengths,
            missing_skills |-> Missing])
FullScores ==
    PyDict([total_score |-> PyInt(73), skill_match |-> PyInt(90),
            experience_match |-> PyInt(60), keyword_match |-> PyInt(70)])

DocValue ==
    [DocFull |-> PyDict([candidate_name |-> PyStr(<<"Bob">>), scores |-> FullScores,
                         analysis |-> FullAnalysis]),
     DocEmptyObject |-> EmptyDict,
     DocNoScores |-> PyDict([candidate_name |-> PyStr(<<"Bob">>),
                             analysis |-> FullAnalysis]),
     DocNoAnalysis |-> PyDict([scores |-> FullScores]),
     DocPartialScores |-> PyDict([scores |-> PyDict([skill_match |-> PyInt(50)]),
                                  analysis |-> PyDict([summary |-> PyStr(<<"ok">>)])]),
     DocScoresNull |-> PyDict([scores |-> PyNone, analysis |-> FullAnalysis]),
     DocAnalysisList |-> PyDict([scores |-> FullScores, analysis |-> PyList(<<>>)]),
     DocOutOfRange |-> PyDict([scores |-> PyDict([total_score |-> PyInt(150),
                                                  skill_match |-> PyInt(-5),
                                                  experience_match |-> PyInt(60),
                                                  keyword_match |-> PyInt(70)]),
                               analysis |-> FullAnalysis]),
     DocList |-> PyList(<<PyInt(1)>>),
     DocEmptyList |-> PyList(<<>>),
     DocNumber |-> PyInt(5),
     DocZero |-> PyInt(0),
     DocNull |-> PyNone]

ParseableDocs == DOMAIN DocValue
Docs == ParseableDocs \cup {"DocTruncated"}

DecodeError == <<"Expecting value: line 1 column 1 (char 0)">>

\* json.loads(s): surrounding whitespace is skipped; the rest must be exactly
\* one document.
json_loads(s) ==
    LET b == strip(s)
    IN  IF Len(b) = 1 /\ b[1] \in ParseableDocs
        THEN [exc |-> FALSE, val |-> DocValue[b[1]], msg |-> <<>>]
        ELSE [exc |-> TRUE, val |-> PyNone, msg |-> DecodeError]

-----------------------------------------------------------------------------
(* HirelyticsAgent. *)

MockTotalScore == 75
MockSkillMatch == 70
MockExperienceMatch == 80
MockKeywordMatch == 75

\* _mock_response with the error left out of the summary.
mock_response_drops_error(name, error) ==
    PyDict([candidate_name |-> PyStr(<<name>>),
            scores |-> PyDict([total_score |-> PyInt(75), skill_match |-> PyInt(70),
                               experience_match |-> PyInt(80),
                               keyword_match |-> PyInt(75)]),
            analysis |-> PyDict([summary |-> PyStr(<<"Mock analiz (API hatasi veya yok: ">>
                                                   \o <<"None">> \o <<")">>),
                                 strengths |-> PyList(<<PyStr(<<"Python">>),
                                                        PyStr(<<"Analitik">>)>>),
                                 missing_skills |-> PyList(<<PyStr(<<"Docker">>)>>)])])

\* _mock_response(name, error=None). The summary template is written in ASCII
\* (the source spells "hatasi" with a dotless i).
_mock_response(name, error) ==
    PyDict([candidate_name |-> PyStr(<<name>>),
            scores |-> PyDict([total_score |-> PyInt(MockTotalScore),
                               skill_match |-> PyInt(MockSkillMatch),
                               experience_match |-> PyInt(MockExperienceMatch),
                               keyword_match |-> PyInt(MockKeywordMatch)]),
            analysis |-> PyDict([summary |-> PyStr(<<"Mock analiz (API hatasi veya yok: ">>
                                                   \o str(error) \o <<")">>),
                                 strengths |-> PyList(<<PyStr(<<"Python">>),
                                                        PyStr(<<"Analitik">>)>>),
                                 missing_skills |-> PyList(<<PyStr(<<"Docker">>)>>)])])

\* What one call of client.models.generate_content can do: raise a rate-limit
\* error, raise another error, answer with no text, or answer with a text.
RateLimitMsg == <<"429 RESOURCE_EXHAUSTED">>
UpstreamMsg == <<"503 UNAVAILABLE">>
NoTextMsg == <<"'NoneType' object has no attribute 'strip'">>

\* body records which part of a text is the document between the fence markers
\* (the whole text when it has none); the agent reads text alone.
RateLimited == [kind |-> "rate_limit", text |-> <<>>, body |-> <<>>]
UpstreamError == [kind |-> "error", text |-> <<>>, body |-> <<>>]
NoText == [kind |-> "no_text", text |-> <<>>, body |-> <<>>]
TextOf(chars) == [kind |-> "text", text |-> chars, body |-> chars]
Fenced(lead, chars, trail) ==
    [kind |-> "text", text |-> lead \o chars \o trail, body |-> chars]

\* StripMarkdown without the strip() of the raw text.
StripMarkdown_unstripped(raw) ==
    LET text1 == IF startswith(raw, FenceOpen)
                 THEN SubSeq(raw, 8, Len(raw)) ELSE raw
        text2 == IF endswith(text1, FenceClose)
                 THEN SubSeq(text1, 1, Len(text1) - 3) ELSE text1
    IN  strip(text2)

\* The markdown clean-up of a response text, up to the argument of json.loads.
StripMarkdown(raw) ==
    LET text0 == strip(raw)
        text1 == IF startswith(text0, FenceOpen)
                 THEN SubSeq(text0, 8, Len(text0)) ELSE text0
        text2 == IF endswith(text1, FenceClose)
                 THEN SubSeq(text1, 1, Len(text1) - 3) ELSE text1
    IN  strip(text2)

\* The try block of analyze for one outcome of the backend call: the parsed
\* value, or the exception it raises.
TryBlock(outcome) ==
    CASE outcome.kind = "rate_limit" -> [exc |-> TRUE, val |-> PyNone, msg |-> RateLimitMsg]
      [] outcome.kind = "error" -> [exc |-> TRUE, val |-> PyNone, msg |-> UpstreamMsg]
      [] outcome.kind = "no_text" -> [exc |-> TRUE, val |-> PyNone, msg |-> NoTextMsg]
      [] outcome.kind = "text" -> json_loads(StripMarkdown(outcome.text))

\* analyze retrying every failed backend call, whatever the error.
analyze_retrying_all(cl, outcome, candidate_name) ==
    IF ~cl
    THEN [ret |-> _mock_response(candidate_name, PyNone), raised |-> FALSE,
          calls |-> 0, sleeps |-> <<>>]
    ELSE LET t == TryBlock(outcome)
         IN  IF t.exc
             THEN [ret |-> _mock_response(candidate_name, PyStr(t.msg)),
                   raised |-> FALSE,
                   calls |-> IF outcome.kind = "text" THEN 1 ELSE 3,
                   sleeps |-> IF outcome.kind = "text" THEN <<>> ELSE <<30, 60>>]
             ELSE [ret |-> t.val, raised |-> FALSE, calls |-> 1, sleeps |-> <<>>]

\* analyze(job_desc, cv_text, candidate_name) with the client configured or
\* not (cl). ret is the value returned, raised whether an exception leaves the
\* method, calls the number of backend calls made, sleeps the sleeps taken.
analyze(cl, outcome, candidate_name) ==
    IF ~cl
    THEN [ret |-> _mock_response(candidate_name, PyNone), raised |-> FALSE,
          calls |-> 0, sleeps |-> <<>>]
    ELSE LET t == TryBlock(outcome)
         IN  IF t.exc
             THEN [ret |-> _mock_response(candidate_name, PyStr(t.msg)),
                   raised |-> FALSE, calls |-> 1, sleeps |-> <<>>]
             ELSE [ret |-> t.val, raised |-> FALSE, calls |-> 1, sleeps |-> <<>>]

-----------------------------------------------------------------------------
(* get_jobs. *)

RECURSIVE Ascending(_)
Ascending(S) ==
    IF S = {} THEN <<>>
    ELSE LET m == CHOOSE x \in S : \A y \in S : x <= y
         IN  <<m>> \o Ascending(S \ {m})

\* The candidate documents of job j, each with its id, in id order.
CandidatesOf(cs, j) ==
    LET ids == Ascending({c \in DOMAIN cs : cs[c].job = j})
    IN  [i \in 1..Len(ids) |->
            [id |-> ids[i], name |-> cs[ids[i]].name,
             analysis_result |-> cs[ids[i]].analysis_result]]

\* The loop body of get_jobs for one candidate raises (AttributeError: .get
\* on a value that is no dict).
ProjectionRaises(c) ==
    LET res == c.analysis_result
    IN  /\ Truthy(res)
        /\ \/ ~IsDict(res)
           \/ ~IsDict(get(res, "scores", EmptyDict))
           \/ ~IsDict(get(res, "analysis", EmptyDict))

\* The entry get_jobs appends for a candidate with a result.
Projection(c) ==
    LET res == c.analysis_result
        scores == get(res, "scores", EmptyDict)
        analysis == get(res, "analysis", EmptyDict)
    IN  [candidateName |-> get(res, "candidate_name", PyStr(<<c.name>>)),
         scores |-> [totalScore |-> get(scores, "total_score", PyInt(0)),
                     skillMatch |-> get(scores, "skill_match", PyInt(0)),
                     experienceMatch |-> get(scores, "experience_match", PyInt(0)),
                     keywordMatch |-> get(scores, "keyword_match", PyInt(0))],
         analysis |-> [summary |-> get(analysis, "summary", PyStr(<<"Ozet yok">>)),
                       strengths |-> get(analysis, "strengths", PyList(<<>>)),
                       missingSkills |-> get(analysis, "missing_skills", PyList(<<>>))],
         isError |-> FALSE]

\* if c.get('analysis_result'):
HasResult(c) == Truthy(c.analysis_result)

RECURSIVE Results(_)
Results(candidates) ==
    IF candidates = <<>> THEN <<>>
    ELSE (IF HasResult(Head(candidates)) THEN <<Projection(Head(candidates))>> ELSE <<>>)
         \o Results(Tail(candidates))

JobEntry(cs, j) ==
    [id |-> j, candidates |-> CandidatesOf(cs, j),
     analysisResults |-> Results(CandidatesOf(cs, j))]

\* The body get_jobs returns for the stored jobs js and candidates cs.
get_jobs(js, cs) ==
    IF \E j \in js : \E i \in DOMAIN CandidatesOf(cs, j) :
           ProjectionRaises(CandidatesOf(cs, j)[i])
    THEN <<>>
    ELSE LET ids == Ascending(js)
         IN  [i \in 1..Len(ids) |-> JobEntry(cs, ids[i])]

-----------------------------------------------------------------------------
(* State.                                                                  *)
(*   client    whether the agent holds a generation client (set once, when *)
(*             the module is loaded)                                       *)
(*   jobs      the ids of the documents of collection jobs                 *)
(*   cands     the candidate documents, by id, each under its job          *)
(*   pc, req   per request slot of /api/analyze: where the handler is, the *)
(*             request, the backend outcome and what agent.analyze gave    *)
(*   response  the last HTTP response sent                                 *)
(*   returned  per candidate document, the result last returned by an      *)
(*             /api/analyze request that addressed it                      *)
(***************************************************************************)

NoRequest ==
    [job_id |-> EmptyId, candidate_id |-> EmptyId, candidate_name |-> "",
     outcome |-> NoText, out |-> [ret |-> PyNone, raised |-> FALSE, calls |-> 0,
                                  sleeps |-> <<>>]]

NoResponse == [op |-> "none", status |-> 0, body |-> PyNone]

Init ==
    /\ client \in BOOLEAN
    /\ jobs = {}
    /\ cands = <<>>
    /\ pc = [r \in Slots |-> "idle"]
    /\ req = [r \in Slots |-> NoRequest]
    /\ response = NoResponse
    /\ returned = <<>>

\* POST /api/jobs
create_job ==
    /\ Cardinality(jobs) < MaxJobs
    /\ jobs' = jobs \cup {Cardinality(jobs) + 1}
    /\ response' = [op |-> "create_job", status |-> 200,
                    body |-> PyInt(Cardinality(jobs) + 1)]
    /\ UNCHANGED <<client, cands, pc, req, returned>>

\* POST /api/upload-cv: the candidate is added under job_id with no result.
\* Reading the file may raise (a .txt that is no UTF-8, a broken PDF); the
\* handler then answers 500 and stores nothing.
upload_cv(job_id, filename, readable) ==
    /\ Cardinality(DOMAIN cands) < MaxCandidates
    /\ IF ~readable
       THEN /\ response' = [op |-> "upload_cv", status |-> 500, body |-> PyNone]
            /\ UNCHANGED cands
       ELSE /\ cands' = cands @@ ((Cardinality(DOMAIN cands) + 1) :>
                            [job |-> job_id, name |-> filename,
                             analysis_result |-> PyNone])
            /\ response' = [op |-> "upload_cv", status |-> 200, body |-> PyNone]
    /\ UNCHANGED <<client, jobs, pc, req, returned>>

\* POST /api/analyze, up to the return of agent.analyze.
analyze_call(r, job_id, candidate_id, candidate_name, outcome) ==
    /\ pc[r] = "idle"
    /\ pc' = [pc EXCEPT ![r] = "called"]
    /\ req' = [req EXCEPT ![r] =
                  [job_id |-> job_id, candidate_id |-> candidate_id,
                   candidate_name |-> candidate_name, outcome |-> outcome,
                   out |-> analyze(client, outcome, candidate_name)]]
    /\ UNCHANGED <<client, jobs, cands, response, returned>>

\* The document .update() addresses exists.
DocumentExists(cs, job_id, candidate_id) ==
    candidate_id \in DOMAIN cs /\ cs[candidate_id].job = job_id

\* update writing the result to every candidate document of the job.
update_whole_job(cs, job_id, candidate_id, result) ==
    [c \in DOMAIN cs |->
        IF cs[c].job = job_id THEN [cs[c] EXCEPT !.analysis_result = result] ELSE cs[c]]

\* The candidate documents after .update({"analysis_result": result}).
update(cs, job_id, candidate_id, result) ==
    [cs EXCEPT ![candidate_id].analysis_result = result]

\* POST /api/analyze, from the return of agent.analyze: the write (when both
\* ids are non-empty) and the response. A write to a document that does not
\* exist raises, and the handler answers 500.
analyze_finish(r) ==
    /\ pc[r] = "called"
    /\ pc' = [pc EXCEPT ![r] = "idle"]
    /\ req' = [req EXCEPT ![r] = NoRequest]
    /\ LET q == req[r]
           writes == q.job_id # EmptyId /\ q.candidate_id # EmptyId
       IN  IF q.out.raised \/ (writes /\ ~DocumentExists(cands, q.job_id, q.candidate_id))
           THEN /\ response' = [op |-> "analyze", status |-> 500, body |-> PyNone]
                /\ UNCHANGED <<cands, returned>>
           ELSE /\ response' = [op |-> "analyze", status |-> 200, body |-> q.out.ret]
                /\ IF writes
                   THEN /\ cands' = update(cands, q.job_id, q.candidate_id, q.out.ret)
                        /\ returned' = [c \in DOMAIN returned \cup {q.candidate_id} |->
                                           IF c = q.candidate_id THEN q.out.ret
                                           ELSE returned[c]]
                   ELSE UNCHANGED <<cands, returned>>
    /\ UNCHANGED <<client, jobs>>

\* GET /api/jobs
list_jobs ==
    /\ response' = [op |-> "get_jobs", status |-> 200, body |-> get_jobs(jobs, cands)]
    /\ UNCHANGED <<client, jobs, cands, pc, req, returned>>

-----------------------------------------------------------------------------
(* The service as one event loop runs it: one request of /api/analyze in   *)
(* service at a time, against every other handler. The backend answers an  *)
(* unfenced document.                                                      *)

ServiceNames == {"Alice"}
ServiceDocs == {"DocFull", "DocEmptyObject", "DocScoresNull", "DocList", "DocZero"}
ServiceOutcomes == {TextOf(<<d>>) : d \in ServiceDocs}
ServiceTargets == {<<EmptyId, EmptyId>>} \cup (JobIds \X CandIds)

CreateJob == create_job
UploadCv == \E j \in JobIds, f \in FileNames, ok \in BOOLEAN : upload_cv(j, f, ok)
AnalyzeCall ==
    \E t \in ServiceTargets, n \in ServiceNames, o \in ServiceOutcomes :
        analyze_call(1, t[1], t[2], n, o)
AnalyzeFinish == analyze_finish(1)
GetJobs == list_jobs

Next == CreateJob \/ UploadCv \/ AnalyzeCall \/ AnalyzeFinish \/ GetJobs

Spec == Init /\ [][Next]_vars

-----------------------------------------------------------------------------
(* The agent alone: one analysis after another that persists nothing, over *)
(* every outcome of the backend call and every document it may answer.     *)

AgentOutcomes == {RateLimited, UpstreamError, NoText} \cup {TextOf(<<d>>) : d \in Docs}

AgentCall ==
    \E n \in Names, o \in AgentOutcomes : analyze_call(1, EmptyId, EmptyId, n, o)
AgentFinish == analyze_finish(1)

NextAgent == AgentCall \/ AgentFinish

SpecAgent == Init /\ [][NextAgent]_vars

-----------------------------------------------------------------------------
(* The agent over every fencing of a response text: a body, with or        *)
(* without the opening marker before it and the closing marker after it,   *)
(* and up to MaxPad whitespace characters at each side of a marker.        *)

MaxPad == 1

Pads == UNION {[1..k -> Whitespace] : k \in 0..MaxPad}
Leads == Pads \cup {a \o FenceOpen \o b : a \in Pads, b \in Pads}
Trails == Pads \cup {a \o FenceClose \o b : a \in Pads, b \in Pads}
FenceBodies == {<<"DocFull">>, <<"DocList">>, <<"DocTruncated">>, <<>>}
FencedOutcomes == {Fenced(l, b, t) : l \in Leads, b \in FenceBodies, t \in Trails}

FenceCall ==
    \E n \in ServiceNames, o \in FencedOutcomes : analyze_call(1, EmptyId, EmptyId, n, o)
FenceFinish == analyze_finish(1)

NextFence == FenceCall \/ FenceFinish

SpecFence == Init /\ [][NextFence]_vars

-----------------------------------------------------------------------------
(* Several workers serving /api/analyze at once against the candidates of  *)
(* one job: a request of one worker may fall between the agent call and    *)
(* the write of another.                                                   *)

WorkerDocs == {"DocFull", "DocEmptyObject"}
WorkerOutcomes == {TextOf(<<d>>) : d \in WorkerDocs}
WorkerTargets == {<<EmptyId, EmptyId>>} \cup ({1} \X CandIds)

WorkerUpload == \E f \in FileNames, ok \in BOOLEAN : upload_cv(1, f, ok)
WorkerCall ==
    \E r \in Slots, t \in WorkerTargets, n \in ServiceNames, o \in WorkerOutcomes :
        analyze_call(r, t[1], t[2], n, o)
WorkerFinish == \E r \in Slots : analyze_finish(r)

NextWorkers == WorkerUpload \/ WorkerCall \/ WorkerFinish

SpecWorkers == Init /\ [][NextWorkers]_vars

-----------------------------------------------------------------------------
(* The mock producer alone: analyses that take a failure path, two at a    *)
(* time, so that two calls with the same arguments can be compared.        *)

FailingOutcomes == {RateLimited, UpstreamError, NoText, TextOf(<<"DocTruncated">>)}

MockCall ==
    \E r \in Slots, n \in Names, o \in FailingOutcomes :
        analyze_call(r, EmptyId, EmptyId, n, o)
MockFinish == \E r \in Slots : analyze_finish(r)

NextMock == MockCall \/ MockFinish

SpecMock == Init /\ [][NextMock]_vars

-----------------------------------------------------------------------------
(* Claims. An analysis is observed in a slot whose handler stands between  *)
(* the return of agent.analyze and the response: req[r].out is what        *)
(* analyze did.                                                            *)

Analysed(r) == pc[r] = "called"

\* The analysis of slot r took a failure path: no backend is configured, or
\* the try block raised (a backend error, no text, a text that does not parse).
FailurePath(r) == ~client \/ TryBlock(req[r].outcome).exc

\* The text pieces txt stand, in this order, somewhere in the string s.
Carries(s, txt) ==
    /\ s.t = "str"
    /\ \E i \in 1..Len(s.v) :
           i + Len(txt) - 1 <= Len(s.v) /\ SubSeq(s.v, i, i + Len(txt) - 1) = txt

\* x is a mock result for candidate name: the name and the four fixed scores.
IsMockFor(x, name) ==
    /\ IsDict(x)
    /\ DOMAIN x.v = {"candidate_name", "scores", "analysis"}
    /\ x.v.candidate_name = PyStr(<<name>>)
    /\ x.v.scores = PyDict([total_score |-> PyInt(75), skill_match |-> PyInt(70),
                            experience_match |-> PyInt(80), keyword_match |-> PyInt(75)])
    /\ IsDict(x.v.analysis)
    /\ "summary" \in DOMAIN x.v.analysis.v

\* C1: analyze never raises, and on every failure path (no backend configured,
\* rate-limit error, other backend error, text that does not parse) it returns
\* the mock result for the candidate name whose summary carries the text of the
\* originating error ("backend unavailable" when no backend is configured).
C1_NeverFailsOutward ==
    \A r \in Slots :
        Analysed(r) =>
            /\ ~req[r].out.raised
            /\ FailurePath(r) =>
                   /\ IsMockFor(req[r].out.ret, req[r].candidate_name)
                   /\ Carries(req[r].out.ret.v.analysis.v.summary,
                              IF ~client THEN <<"backend unavailable">>
                              ELSE TryBlock(req[r].outcome).msg)

\* C2: when the backend fails with a rate-limit error on every call, one
\* analysis makes exactly 3 backend calls and sleeps 30 s then 60 s, and no
\* analysis makes more than 3 calls.
C2_RetrySchedule ==
    \A r \in Slots :
        Analysed(r) =>
            /\ req[r].out.calls <= 3
            /\ (client /\ req[r].outcome.kind = "rate_limit") =>
                   /\ req[r].out.calls = 3
                   /\ req[r].out.sleeps = <<30, 60>>
                   /\ IsMockFor(req[r].out.ret, req[r].candidate_name)

\* C3: when the backend call fails with an error that is no rate-limit error,
\* the analysis has made exactly 1 backend call and no sleep, and its result is
\* the mock for the candidate name carrying the captured error message.
C3_NonRetryEscalation ==
    \A r \in Slots :
        (Analysed(r) /\ client /\ req[r].outcome.kind = "error") =>
            /\ req[r].out.calls = 1
            /\ req[r].out.sleeps = <<>>
            /\ ~req[r].out.raised
            /\ IsMockFor(req[r].out.ret, req[r].candidate_name)
            /\ Carries(req[r].out.ret.v.analysis.v.summary, UpstreamMsg)

C3_Witness ==
    \E r \in Slots : Analysed(r) /\ client /\ req[r].outcome.kind = "error"

\* x is an integer score in 0..100.
IsScore(x) == x.t = "int" /\ x.v \in 0..100

\* x has every required field of an analysis result.
Complete(x) ==
    /\ IsDict(x)
    /\ {"candidate_name", "scores", "analysis"} \subseteq DOMAIN x.v
    /\ x.v.candidate_name.t = "str"
    /\ IsDict(x.v.scores)
    /\ {"skill_match", "experience_match", "keyword_match", "total_score"}
           \subseteq DOMAIN x.v.scores.v
    /\ \A k \in {"skill_match", "experience_match", "keyword_match", "total_score"} :
           IsScore(x.v.scores.v[k])
    /\ IsDict(x.v.analysis)
    /\ {"summary", "strengths", "missing_skills"} \subseteq DOMAIN x.v.analysis.v
    /\ x.v.analysis.v.summary.t = "str"
    /\ x.v.analysis.v.strengths.t = "list"
    /\ x.v.analysis.v.missing_skills.t = "list"

\* C4: every result analyze returns for a backend response that parses has
\* all required fields, the four scores integers in 0..100.
C4_Completeness ==
    \A r \in Slots :
        (Analysed(r) /\ client /\ req[r].outcome.kind = "text"
            /\ ~TryBlock(req[r].outcome).exc) => Complete(req[r].out.ret)

\* C5: with no backend configured, analyze makes no backend call and no sleep,
\* and returns a result flagged isMock = true with the reason "backend
\* unavailable" whose candidate name is the input name.
C5_FallbackWithoutBackend ==
    \A r \in Slots :
        (Analysed(r) /\ ~client) =>
            /\ req[r].out.calls = 0
            /\ req[r].out.sleeps = <<>>
            /\ IsDict(req[r].out.ret)
            /\ req[r].out.ret.v.candidate_name = PyStr(<<req[r].candidate_name>>)
            /\ "isMock" \in DOMAIN req[r].out.ret.v
            /\ req[r].out.ret.v["isMock"] = [t |-> "bool", v |-> TRUE]
            /\ Carries(req[r].out.ret.v.analysis.v.summary, <<"backend unavailable">>)

\* C7: a response text that is a body with or without the opening fence marker
\* and with or without the closing one, whitespace around each, gives the
\* result the bare body gives.
C7_FenceStripping ==
    \A r \in Slots :
        (Analysed(r) /\ client /\ req[r].outcome.kind = "text") =>
            req[r].out.ret
                = analyze(client, TextOf(req[r].outcome.body), req[r].candidate_name).ret

C7_Witness ==
    \E r \in Slots :
        /\ Analysed(r) /\ client
        /\ req[r].outcome = Fenced(<<" ">> \o FenceOpen \o <<"\n">>, <<"DocFull">>,
                                    <<"\n">> \o FenceClose \o <<"\n">>)
        /\ req[r].out.ret = DocValue["DocFull"]

\* The reason the mock producer was called with in slot r.
MockReason(r) == IF ~client THEN PyNone ELSE PyStr(TryBlock(req[r].outcome).msg)

\* C8: the mock producer gives the input name, the fixed scores 70, 80, 75 and
\* 75, and the fixed summary template with the reason embedded verbatim; two
\* calls with the same name and reason give identical results.
C8_MockDeterminism ==
    /\ \A r \in Slots :
           (Analysed(r) /\ FailurePath(r)) =>
               /\ IsMockFor(req[r].out.ret, req[r].candidate_name)
               /\ req[r].out.ret.v.analysis.v.summary
                      = PyStr(<<"Mock analiz (API hatasi veya yok: ">>
                              \o str(MockReason(r)) \o <<")">>)
    /\ \A r1, r2 \in Slots :
           (/\ Analysed(r1) /\ FailurePath(r1)
            /\ Analysed(r2) /\ FailurePath(r2)
            /\ req[r1].candidate_name = req[r2].candidate_name
            /\ MockReason(r1) = MockReason(r2)) => req[r1].out.ret = req[r2].out.ret

C8_Witness ==
    \E r1, r2 \in Slots :
        /\ r1 # r2
        /\ Analysed(r1) /\ Analysed(r2) /\ client
        /\ req[r1].candidate_name = req[r2].candidate_name
        /\ req[r1].outcome = UpstreamError /\ req[r2].outcome = UpstreamError

\* The candidates get_jobs lists for a job that have a stored result (neither
\* absent nor null).
WithStoredResult(candidates) ==
    {k \in DOMAIN candidates : candidates[k].analysis_result # PyNone}

\* C6: every job get_jobs returns has one analysisResults entry per candidate
\* with a stored result and none for the others, each entry under the field
\* names totalScore, skillMatch, experienceMatch, keywordMatch, missingSkills.
C6_ProjectionSkip ==
    (response.op = "get_jobs") =>
        \A i \in DOMAIN response.body :
            LET job == response.body[i]
            IN  /\ Len(job.analysisResults) = Cardinality(WithStoredResult(job.candidates))
                /\ \A k \in DOMAIN job.analysisResults :
                       /\ DOMAIN job.analysisResults[k].scores
                              = {"totalScore", "skillMatch", "experienceMatch",
                                 "keywordMatch"}
                       /\ "missingSkills" \in DOMAIN job.analysisResults[k].analysis

\* A stored result that is no mapping, or whose scores or analysis is present
\* and no mapping.
Malformed(x) ==
    /\ x # PyNone
    /\ \/ ~IsDict(x)
       \/ ~IsDict(get(x, "scores", EmptyDict))
       \/ ~IsDict(get(x, "analysis", EmptyDict))

\* C10: get_jobs answers without raising, with one entry per stored job or
\* with the empty list; one malformed stored result under a stored job makes
\* it answer the empty list.
C10_AllOrNothing ==
    (response.op = "get_jobs") =>
        /\ response.status = 200
        /\ response.body = <<>> \/ Len(response.body) = Cardinality(jobs)
        /\ (\E c \in DOMAIN cands :
                cands[c].job \in jobs /\ Malformed(cands[c].analysis_result))
               => response.body = <<>>

\* C9 (state): the result stored for a candidate is the result last returned
\* by a request that addressed it.
C9_StoredIsReturned ==
    \A c \in DOMAIN returned :
        c \in DOMAIN cands /\ cands[c].analysis_result = returned[c]

\* C9 (step): a candidate document changes only by the write of a request that
\* addresses it by job and candidate id; only its analysis_result changes, to
\* the value the request returns; no document is removed.
C9_OnlyAddressedWrite ==
    /\ DOMAIN cands \subseteq DOMAIN cands'
    /\ \A c \in DOMAIN cands :
           cands'[c] # cands[c] =>
               \E r \in Slots :
                   /\ pc[r] = "called" /\ pc'[r] = "idle"
                   /\ req[r].candidate_id = c /\ req[r].job_id = cands[c].job
                   /\ cands'[c] = [cands[c] EXCEPT !.analysis_result = req[r].out.ret]
                   /\ response' = [op |-> "analyze", status |-> 200,
                                   body |-> req[r].out.ret]
                   /\ returned'[c] = req[r].out.ret

\* C9: an analyze request with non-empty ids writes only the analysis_result
\* of the candidate it addresses, the value it returns; under every
\* interleaving each candidate's stored result is the one returned for it.
C9_IndependentPersistence == [](C9_StoredIsReturned) /\ [][C9_OnlyAddressedWrite]_vars

\* Two candidates hold different returned results while a further request,
\* addressing one of them, stands between its agent call and its write.
C9_Witness ==
    \E c1, c2 \in DOMAIN returned, r \in Slots :
        /\ c1 # c2
        /\ returned[c1] # returned[c2]
        /\ Analysed(r)
        /\ req[r].candidate_id = c1 /\ req[r].job_id = cands[c1].job
        /\ req[r].out.ret # returned[c1]

====
